---- MODULE Spec2Model ----
(***************************************************************************)
(* Model of the dual-retrieval comparison and judging engine of            *)
(* Module_4_Knowledge_Graphs/knowledge_graph_rag_comparison.py:            *)
(* Neo4jGraphRAG.query, execute_text_to_cypher,                            *)
(* _extract_graph_from_results, kg_query_with_explanation,                 *)
(* compare_with_judge, retrieve_with_vector_search, text_to_cypher,        *)
(* get_graph_data, quick_ask_with_judge and batch_judge_questions, with    *)
(* the Graph Query Service (Neo4j) and the                                 *)
(* Completion Service (OpenAI) as nondeterministic collaborators that      *)
(* either answer or raise.                                                 *)
(***************************************************************************)
EXTENDS Integers, Sequences, FiniteSets, TLC

VARIABLES
    corpus,        \* the Article nodes stored in the graph
    question,      \* the question, a sequence of whitespace-free words
    pc,            \* position of compare_with_judge
    context,       \* the context retrieve_context returned
    rag_result,    \* result of self.query(question), NoValue before it returns
    kg_cypher,     \* the query string text_to_cypher produced
    kg_rows,       \* the list execute_query(cypher) returned, NoValue before
    names,         \* entity_names handed to the lookup queries
    nodes_dict,    \* the extractor's nodes_dict, in insertion order
    rels_list,     \* the extractor's relationships_list
    dropped,       \* relationships left out because an endpoint is no node
    extract_exc,   \* the step of the extractor whose exception was swallowed
    kg_exec,       \* result of execute_text_to_cypher
    kg_result,     \* result of kg_query_with_explanation
    judge_content, \* the content of the judge's response, NoValue without one
    judge_text,    \* judgment_text as handed to json.loads
    judgment,      \* the judgment of compare_with_judge
    shown,         \* the winner line compare_with_judge printed
    record,        \* the comparison record compare_with_judge returned
    exc,           \* the exception that escaped compare_with_judge
    calls,         \* number of calls made to each collaborator
    questions,     \* the questions handed to batch_judge_questions
    results,       \* the comparison records batch_judge_questions has gathered
    stats,         \* the aggregate figures batch_judge_questions printed
    batch_pc,      \* position of batch_judge_questions
    embedded,      \* cosine similarity to the query of each embedded article
    top_k,         \* the limit handed to retrieve_with_vector_search
    renders,       \* what each call of retrieve_with_vector_search rendered
    driver,        \* the graph driver connection of the helper: "open" or "closed"
    requests,      \* the judge requests of repeated comparisons of one pair
    store,         \* the nodes and the relationships of the graph get_graph_data reads
    node_limit,    \* the limit handed to get_graph_data
    graph_view,    \* what get_graph_data returned, NoValue before
    completion,    \* the content the Completion Service returned to text_to_cypher
    cypher_text    \* what text_to_cypher returned for it, NoValue before

\* the state of one comparison, of a batch, of vector retrieval
cmpvars == <<corpus, question, pc, context, rag_result, kg_cypher, kg_rows, names,
             nodes_dict, rels_list, dropped, extract_exc, kg_exec, kg_result,
             judge_content, judge_text, judgment, shown, record, exc, calls>>
batchvars == <<questions, results, stats, batch_pc>>
vecvars == <<embedded, top_k, renders>>
promptvars == <<requests>>
datavars == <<store, node_limit, graph_view>>
transvars == <<completion, cypher_text>>
auxvars == <<promptvars, datavars, transvars>>
vars == <<cmpvars, batchvars, vecvars, driver, auxvars>>

\* ------------------------------------------------------------------------
\* Bounds of the model
\* ------------------------------------------------------------------------
MaxJudgeText == 4
MaxLookupElems == 2

\* ------------------------------------------------------------------------
\* Python values
\* ------------------------------------------------------------------------
NoValue == [ty |-> "unset"]
\* a key that a dict does not hold
Absent == [ty |-> "absent"]
PyNone == [ty |-> "none"]
Str(s) == [ty |-> "str", s |-> s]
Num(n) == [ty |-> "num", n |-> n]
Lst(items) == [ty |-> "list", items |-> items]
\* a str kept as its sequence of tokens
Txt(t) == [ty |-> "str", t |-> t]

IsStr(v) == v.ty = "str"
IsHashable(v) == v.ty \in {"none", "str", "num", "absent"}
\* Python truthiness of a value
Truthy(v) ==
    CASE v.ty = "str" -> (IF "s" \in DOMAIN v THEN v.s # "" ELSE v.t # <<>>)
      [] v.ty = "num" -> v.n # 0
      [] v.ty = "list" -> v.items # <<>>
      [] v.ty = "dict" -> DOMAIN v # {"ty"}
      [] OTHER -> FALSE

\* dict.get(key, default) on a record used as a dict
Get(d, key, default) == IF key \in DOMAIN d THEN d[key] ELSE default

\* ------------------------------------------------------------------------
\* Sequences and text.  A text is a sequence of tokens; a token is a word, a
\* punctuation mark or a run of whitespace, so that the substring tests and
\* splits of the code are tests and splits on tokens.
\* ------------------------------------------------------------------------
Prefix(s, n) == SubSeq(s, 1, IF Len(s) < n THEN Len(s) ELSE n)
SeqRange(s) == {s[i] : i \in DOMAIN s}
Perms(S) ==
    {p \in [1..Cardinality(S) -> S] : \A i, j \in 1..Cardinality(S) : i # j => p[i] # p[j]}
SeqsUpTo(S, n) == UNION {[1..k -> S] : k \in 0..n}

RECURSIVE Concat(_)
Concat(ss) == IF ss = <<>> THEN <<>> ELSE Head(ss) \o Concat(Tail(ss))

WS == " "
\* str.strip() on a token text
RECURSIVE LStrip(_)
LStrip(t) == IF t # <<>> /\ Head(t) = WS THEN LStrip(Tail(t)) ELSE t
RECURSIVE RStrip(_)
RStrip(t) == IF t # <<>> /\ t[Len(t)] = WS THEN RStrip(SubSeq(t, 1, Len(t) - 1)) ELSE t
Strip(t) == RStrip(LStrip(t))

\* the position of the first occurrence of pattern p in t, 0 when there is none
StartsWith(t, p) == Len(p) <= Len(t) /\ SubSeq(t, 1, Len(p)) = p
Occurrences(t, p) == {i \in 1..Len(t) : StartsWith(SubSeq(t, i, Len(t)), p)}
Find(t, p) ==
    IF Occurrences(t, p) = {} THEN 0
    ELSE CHOOSE i \in Occurrences(t, p) : \A j \in Occurrences(t, p) : i <= j
Contains(t, p) == Find(t, p) # 0
\* str.split(p): the pieces of t between the occurrences of p, left to right
RECURSIVE Split(_, _)
Split(t, p) ==
    IF ~Contains(t, p) THEN <<t>>
    ELSE <<SubSeq(t, 1, Find(t, p) - 1)>>
         \o Split(SubSeq(t, Find(t, p) + Len(p), Len(t)), p)

\* str.split(p, 1): the text before the first occurrence of p and the text after it
SplitOnce(t, p) ==
    IF ~Contains(t, p) THEN <<t>>
    ELSE <<SubSeq(t, 1, Find(t, p) - 1), SubSeq(t, Find(t, p) + Len(p), Len(t))>>
\* str.replace(p, "")
Remove(t, p) == Concat(Split(t, p))

\* ------------------------------------------------------------------------
\* The corpus and the keyword retrieval (RAG branch)
\* ------------------------------------------------------------------------
\* An Article node; text is the set of lower-case words that are substrings
\* of toLower(title) or toLower(abstract).
Article1 ==
    [title |-> "Graph RAG", abstract |-> "abs1", date |-> "2024-01-01",
     text |-> {"graph", "rag"}, topics |-> <<"AI">>, authors |-> <<"Ann", "Bob">>]
Article2 ==
    [title |-> "Graph Theory", abstract |-> "abs2", date |-> "2024-02-02",
     text |-> {"graph"}, topics |-> <<>>, authors |-> <<>>]
Articles == {Article1, Article2}
Corpora == SUBSET Articles

\* str.lower() on one word
Lower(w) == IF w = "Graph" THEN "graph" ELSE IF w = "RAG" THEN "rag" ELSE w
Questions == {<<>>, <<"zebra">>, <<"Graph">>, <<"zebra", "RAG">>}

\* question.lower().split()
Keywords(q) == [i \in DOMAIN q |-> Lower(q[i])]

\* the MATCH ... WHERE ANY(keyword IN $keywords ...) of retrieve_context
KeywordMatches(c, keywords) ==
    {a \in c : \E i \in DOMAIN keywords : keywords[i] \in a.text}

\* ORDER BY size(authors) DESC LIMIT $limit: ties come in any order
DefaultLimit == 5
KeywordRows(c, keywords, limit) ==
    LET m == KeywordMatches(c, keywords)
        sorted == {p \in Perms(m) :
                     \A i, j \in DOMAIN p : i < j => Len(p[i].authors) >= Len(p[j].authors)}
    IN {Prefix(p, limit) : p \in sorted}

\* ', '.join(xs) if xs else 'N/A'
JoinNames(xs) == IF xs = <<>> THEN <<"N/A">> ELSE Concat([i \in DOMAIN xs |->
                    IF i = 1 THEN <<xs[i]>> ELSE <<",", WS, xs[i]>>])

\* the decimal rendering of a small number
Digits == <<"1", "2", "3", "4", "5", "6", "7", "8", "9">>
Decimal(n) == IF n = 0 THEN "0" ELSE Digits[n]

\* one context block of retrieve_context, as its lines
ContextPart(i, r) ==
    << <<>>,
       <<"Article", WS, Digits[i], ":", WS, r.title>>,
       <<"Authors", ":", WS>> \o JoinNames(r.authors),
       <<"Topics", ":", WS>> \o JoinNames(r.topics),
       <<"Abstract", ":", WS, r.abstract>>,
       <<"Date", ":", WS, r.date>>,
       <<"---">> >>

\* "\n\n".join(context_parts), as the lines of the joined text; "" has no line
RECURSIVE JoinParts(_)
JoinParts(parts) ==
    IF parts = <<>> THEN <<>>
    ELSE IF Len(parts) = 1 THEN parts[1]
    ELSE parts[1] \o << <<>> >> \o JoinParts(Tail(parts))

retrieve_context(rows) == JoinParts([i \in DOMAIN rows |-> ContextPart(i, rows[i])])

\* extract_sources: the stripped text after the first ':' of each line that
\* starts with 'Article' and holds a ':'
RECURSIVE extract_sources(_)
extract_sources(ctx) ==
    IF ctx = <<>> THEN <<>>
    ELSE LET line == Head(ctx)
         IN (IF StartsWith(line, <<"Article">>) /\ Contains(line, <<":">>)
             THEN <<Strip(SplitOnce(line, <<":">>)[2])>> ELSE <<>>)
            \o extract_sources(Tail(ctx))

CannedAnswer == "I couldn't find any relevant information in the knowledge graph."

\* the canned return with its answer left blank
QueryCannedBlank == [answer |-> Str(""), context |-> <<>>, sources |-> <<>>]
\* query(): the return of the if not context branch
QueryCanned == [answer |-> Str(CannedAnswer), context |-> <<>>, sources |-> <<>>]
\* query(): the return after generate_answer
QueryAnswered(answer, ctx) ==
    [answer |-> answer, context |-> ctx, sources |-> extract_sources(ctx)]
\* the test written as one for None, which "" is not
ContextIsNone(ctx) == FALSE
\* query(): if not context
ContextIsEmpty(ctx) == ctx = <<>>

\* ------------------------------------------------------------------------
\* Text-to-Cypher (KG branch)
\* ------------------------------------------------------------------------
\* the code-fence marker, a run of three backticks
FENCE == "<fence>"
\* the messages of the exceptions the collaborators raise
DbError == "ServiceUnavailable"
LlmError == "RateLimitError"

\* what the Completion Service may answer to the translation prompt
TranslatorTexts ==
    { <<"MATCH">>,
      <<FENCE, "cypher", WS, "MATCH", WS, FENCE>>,
      <<WS, FENCE, WS, "RETURN", FENCE>> }

\* the stripping with its second replace left out
StripCypherOnce(content, fence) == Strip(Remove(Strip(content), fence \o <<"cypher">>))
\* text_to_cypher: content.strip(), then .replace(fence + "cypher", "").replace(fence, "").strip(),
\* for the marker written as the token sequence fence
StripCypherWith(content, fence) ==
    Strip(Remove(Remove(Strip(content), fence \o <<"cypher">>), fence))
\* the same for texts that hold the marker as the one token FENCE
StripCypher(content) == StripCypherWith(content, <<FENCE>>)

\* text_to_cypher: its two returns
CypherOk(content) == [success |-> TRUE, cypher |-> StripCypher(content), error |-> PyNone]
CypherFailed(msg) == [success |-> FALSE, cypher |-> PyNone, error |-> Str(msg)]

EmptyGraph == [nodes |-> <<>>, relationships |-> <<>>]

\* execute_text_to_cypher: its three returns; ExecFailedAsTranslation is the
\* except branch written with the message of the translation failure
ExecTranslationFailed(cypher_result) ==
    [success |-> FALSE,
     error |-> Txt(<<"Failed to generate Cypher: ", cypher_result.error.s>>)]
ExecOk(cypher, rows, graph_data) ==
    [success |-> TRUE, cypher |-> cypher, results |-> rows, result_count |-> Len(rows),
     graph_data |-> graph_data, error |-> PyNone]
ExecFailedAsTranslation(cypher, msg) ==
    [success |-> FALSE, cypher |-> cypher, results |-> <<>>, result_count |-> 0,
     graph_data |-> EmptyGraph, error |-> Txt(<<"Failed to generate Cypher: ", msg>>)]
ExecFailed(cypher, msg) ==
    [success |-> FALSE, cypher |-> cypher, results |-> <<>>, result_count |-> 0,
     graph_data |-> EmptyGraph, error |-> Txt(<<"Cypher execution error: ", msg>>)]

\* the records the Graph Query Service may return for the translated query
QueryRows ==
    { <<>>,
      << [total |-> Num(3)] >>,
      << [researcher |-> Str("Ann"), articles |-> Num(2)] >>,
      << [title |-> Str("Graph RAG"), authors |-> Lst(<<Str("Ann"), Str(""), Num(1)>>)],
         [title |-> Str(""), authors |-> Lst(<<>>)] >> }

\* The records it may return on an empty graph: none for a query that
\* matches, one for a query that only aggregates or returns a literal
EmptyGraphRows ==
    { <<>>,
      << [total |-> Num(0)] >>,
      << [titles |-> Lst(<<>>)] >>,
      << [answer |-> Str("none")] >> }
\* the records of the translated query on the graph that holds corpus
GraphRows(c) == IF c = {} THEN EmptyGraphRows ELSE QueryRows

\* ------------------------------------------------------------------------
\* _extract_graph_from_results
\* ------------------------------------------------------------------------
\* the strings one value of a record adds to entity_names
ValueNames(v) ==
    IF v.ty = "str" /\ v.s # "" THEN {v.s}
    ELSE IF v.ty = "list"
         THEN {v.items[i].s : i \in {j \in DOMAIN v.items :
                                       v.items[j].ty = "str" /\ v.items[j].s # ""}}
         ELSE {}
\* entity_names after the loop over the results
CollectNames(rows) ==
    UNION {UNION {ValueNames(rows[i][k]) : k \in DOMAIN rows[i]} : i \in DOMAIN rows}

NameCeiling == 50
NamePrefix == 20
\* if entity_names and len(entity_names) < 50
WantsLookup(entity_names) == entity_names # {} /\ Cardinality(entity_names) < NameCeiling
\* The order list(entity_names) lists a set in is Python's choice.  The model
\* takes the rotations of one order of the names: more than the ceiling of
\* them, so that sets just under, at and over the ceiling exist.
NameOrder ==
    << "n01", "n02", "n03", "n04", "n05", "n06", "n07", "n08", "n09", "n10",
       "n11", "n12", "n13", "n14", "n15", "n16", "n17", "n18", "n19", "n20",
       "n21", "n22", "n23", "n24", "n25", "n26", "n27", "n28", "n29", "n30",
       "n31", "n32", "n33", "n34", "n35", "n36", "n37", "n38", "n39", "n40",
       "n41", "n42", "n43", "n44", "n45", "n46", "n47", "n48", "n49", "n50",
       "n51" >>
Rotate(order, k) == [i \in DOMAIN order |-> order[((i + k - 1) % Len(order)) + 1]]
\* the first n elements of S in the given order
FirstNames(order, S, n) == SeqRange(Prefix(SelectSeq(order, LAMBDA x : x \in S), n))
\* the list handed on without the cut
LookupNamesUncut(entity_names) == {entity_names}
\* list(entity_names)[:20]: the elements of a prefix of the set as listed
LookupNames(entity_names) ==
    IF Cardinality(entity_names) <= NamePrefix THEN {entity_names}
    ELSE {FirstNames(Rotate(NameOrder, k), entity_names, NamePrefix) :
            k \in 0..(Len(NameOrder) - 1)}

\* nodes_dict is kept as the sequence of its values in insertion order
HasNode(nd, id) == \E i \in DOMAIN nd : nd[i].id = id
\* nodes_dict[node['id']] = node
PutNode(nd, node) ==
    IF HasNode(nd, node.id)
    THEN [i \in DOMAIN nd |-> IF nd[i].id = node.id THEN node ELSE nd[i]]
    ELSE Append(nd, node)

\* the loop over graph_results[0].get('nodes', []): the nodes_dict it leaves and
\* whether it raised
RECURSIVE MergeNodes(_, _)
MergeNodes(nd, elems) ==
    IF elems = <<>> THEN [nodes |-> nd, raised |-> FALSE]
    ELSE LET node == Head(elems)
         IN IF ~Truthy(node) THEN MergeNodes(nd, Tail(elems))
            \* node.get on a value that is no dict
            ELSE IF node.ty # "dict" THEN [nodes |-> nd, raised |-> TRUE]
            ELSE IF Get(node, "id", PyNone) = PyNone THEN MergeNodes(nd, Tail(elems))
            \* an unhashable id as a dict key
            ELSE IF ~IsHashable(node.id) THEN [nodes |-> nd, raised |-> TRUE]
            ELSE MergeNodes(PutNode(nd, node), Tail(elems))

\* the test with its second half forgotten
SourcePresent(nd, rel) == HasNode(nd, rel.source)
\* rel['source'] in nodes_dict and rel['target'] in nodes_dict
BothEndpointsPresent(nd, rel) == HasNode(nd, rel.source) /\ HasNode(nd, rel.target)

\* the loop over graph_results[0].get('relationships', []): the list it
\* leaves, whether it raised, and how many relationships it left out for an
\* endpoint that is no node
RECURSIVE MergeRels(_, _, _, _)
MergeRels(nd, rels, elems, out) ==
    IF elems = <<>> THEN [rels |-> rels, raised |-> FALSE, dropped |-> out]
    ELSE LET rel == Head(elems)
         IN IF ~Truthy(rel) THEN MergeRels(nd, rels, Tail(elems), out)
            \* rel.get on a value that is no dict
            ELSE IF rel.ty # "dict" THEN [rels |-> rels, raised |-> TRUE, dropped |-> out]
            ELSE IF Get(rel, "source", PyNone) = PyNone \/ Get(rel, "target", PyNone) = PyNone
                 THEN MergeRels(nd, rels, Tail(elems), out)
            \* an unhashable endpoint in a membership test
            ELSE IF ~IsHashable(rel.source)
                 THEN [rels |-> rels, raised |-> TRUE, dropped |-> out]
            ELSE IF HasNode(nd, rel.source) /\ ~IsHashable(rel.target)
                 THEN [rels |-> rels, raised |-> TRUE, dropped |-> out]
            ELSE IF BothEndpointsPresent(nd, rel)
                 THEN MergeRels(nd, Append(rels, rel), Tail(elems), out)
            ELSE MergeRels(nd, rels, Tail(elems), out + 1)

\* if graph_results and len(graph_results) > 0 and graph_results[0]
HasFirstRow(resp) == resp # <<>> /\ DOMAIN resp[1] # {}

\* the processing of one lookup's response: nodes first, then relationships
MergeResponse(nd, rels, resp) ==
    IF ~HasFirstRow(resp) THEN [nodes |-> nd, rels |-> rels, raised |-> FALSE, dropped |-> 0]
    ELSE LET n == MergeNodes(nd, Get(resp[1], "nodes", <<>>))
         IN IF n.raised THEN [nodes |-> n.nodes, rels |-> rels, raised |-> TRUE, dropped |-> 0]
            ELSE LET r == MergeRels(n.nodes, rels, Get(resp[1], "relationships", <<>>), 0)
                 IN [nodes |-> n.nodes, rels |-> r.rels, raised |-> r.raised,
                     dropped |-> r.dropped]

\* the return of _extract_graph_from_results
Snapshot(nd, rels) == [nodes |-> nd, relationships |-> rels]

\* ------------------------------------------------------------------------
\* kg_query_with_explanation
\* ------------------------------------------------------------------------
ResultCap == 20
ListCap == 5
\* format_kg_results: the first 20 rows, each list value cut to its first 5 items
FormatValue(v) == IF v.ty = "list" THEN Lst(Prefix(v.items, ListCap)) ELSE v
format_kg_results(rows) ==
    IF rows = <<>> THEN <<"No results found.">>
    ELSE [i \in DOMAIN Prefix(rows, ResultCap) |->
            [k \in DOMAIN rows[i] |-> FormatValue(rows[i][k])]]

KgMethod == "Knowledge Graph (Text-to-Cypher)"
\* kg_query_with_explanation: the return when execute_text_to_cypher failed
KgFailed(exec) ==
    [method |-> KgMethod, success |-> FALSE, error |-> exec.error,
     answer |-> Txt(<<"Failed to query knowledge graph: ">> \o exec.error.t)]
\* kg_query_with_explanation: the return after the explanation call
KgOk(exec, answer) ==
    [method |-> KgMethod, success |-> TRUE, cypher |-> exec.cypher,
     results |-> exec.results, result_count |-> exec.result_count,
     formatted_results |-> format_kg_results(exec.results), answer |-> answer,
     graph_data |-> Get(exec, "graph_data", EmptyGraph)]
\* a fallback that leaves the count out
ExplanationFallbackBare(exec, msg) == Txt(<<"Failed to generate explanation: ", msg>>)
\* the answer when the explanation call raised
ExplanationFallback(exec, msg) ==
    Txt(<<"Found ", Decimal(exec.result_count),
          " results, but failed to generate explanation: ", msg>>)

\* ------------------------------------------------------------------------
\* The judge of compare_with_judge
\* ------------------------------------------------------------------------
\* a JSON object as the dict json.loads makes of it
Dict(fields) == [k \in DOMAIN fields \cup {"ty"} |-> IF k = "ty" THEN "dict" ELSE fields[k]]

\* The JSON documents a judge response may hold, by name.  A document is one
\* token of the response text; json.loads makes the named value of it.
JsonDocs ==
    [doc_a |-> Dict([winner |-> Str("A"), confidence |-> Str("high"),
                     accuracy_score_a |-> Num(8), accuracy_score_b |-> Num(6),
                     strengths_a |-> Lst(<<Str("grounded")>>)]),
     doc_b |-> Dict([winner |-> Str("B"), confidence |-> Str("low"),
                     accuracy_score_a |-> Num(5), accuracy_score_b |-> Num(9)]),
     doc_tie |-> Dict([winner |-> Str("TIE"), confidence |-> Str("medium")]),
     doc_other |-> Dict([winner |-> Str("C"), confidence |-> Str("high")]),
     doc_no_winner |-> Dict([confidence |-> Str("high")]),
     doc_null_winner |-> Dict([winner |-> PyNone, confidence |-> Str("high")]),
     doc_list_winner |-> Dict([winner |-> Lst(<<Str("A")>>), confidence |-> Str("high")]),
     doc_no_confidence |-> Dict([winner |-> Str("A")]),
     doc_null_confidence |-> Dict([winner |-> Str("A"), confidence |-> PyNone]),
     doc_num_confidence |-> Dict([winner |-> Str("B"), confidence |-> Num(3)]),
     doc_num_strengths |-> Dict([winner |-> Str("A"), confidence |-> Str("high"),
                                 strengths_a |-> Num(2)]),
     doc_error_key |-> Dict([error |-> Str("cannot judge")]),
     doc_raw_text_key |-> Dict([raw_text |-> Str("B is better"), winner |-> Str("B")]),
     doc_empty |-> Dict(<<>>),
     doc_list |-> Lst(<<Str("A")>>),
     doc_string |-> Str("A"),
     doc_number |-> Num(7),
     doc_null |-> PyNone]
DocNames == DOMAIN JsonDocs

\* json.loads(text): JSON allows whitespace around the one document
JsonParses(text) == Len(Strip(text)) = 1 /\ Strip(text)[1] \in DocNames
JsonValue(text) == JsonDocs[Strip(text)[1]]

\* the stripping of an optional code fence (the if / elif before json.loads)
StripFence(text) ==
    IF Contains(text, <<FENCE, "json">>)
    THEN Strip(Split(Split(text, <<FENCE, "json">>)[2], <<FENCE>>)[1])
    ELSE IF Contains(text, <<FENCE>>)
    THEN Strip(Split(Split(text, <<FENCE>>)[2], <<FENCE>>)[1])
    ELSE text

\* the fallback keeping the text as received instead of the stripped one
ParseJudgmentUnstripped(content) ==
    IF JsonParses(StripFence(Strip(content))) THEN JsonValue(StripFence(Strip(content)))
    ELSE Dict([raw_text |-> Txt(Strip(content))])
\* the judgment of the try block, from the content of the response
ParseJudgment(content) ==
    LET judgment_text == StripFence(Strip(content))
    IN IF JsonParses(judgment_text) THEN JsonValue(judgment_text)
       ELSE Dict([raw_text |-> Txt(judgment_text)])
\* the text json.loads was given
ParsedText(content) == StripFence(Strip(content))
\* the except branch leaving no judgment
JudgmentLost(msg) == PyNone
\* the judgment of the except branch of the judge call
JudgmentError(msg) == Dict([error |-> Str(msg)])

HasKey(d, key) == key \in DOMAIN d

\* winner_map.get(judgment.get('winner', 'UNKNOWN'), 'UNKNOWN')
WinnerLabel(winner) ==
    CASE winner = Str("A") -> "RAG"
      [] winner = Str("B") -> "Knowledge Graph"
      [] winner = Str("TIE") -> "TIE"
      [] OTHER -> "UNKNOWN"

\* batch_judge_questions: {"A": "RAG", "B": "KG", "TIE": "TIE"}.get(result.get('winner'), '?')
BatchWinnerName(winner) ==
    CASE winner = Str("A") -> "RAG"
      [] winner = Str("B") -> "KG"
      [] winner = Str("TIE") -> "TIE"
      [] OTHER -> "?"

\* for x in judgment[key] under if judgment.get(key)
IterationRaises(d, key) ==
    LET v == Get(d, key, PyNone) IN Truthy(v) /\ v.ty \notin {"list", "str", "dict"}
ListKeys == {"strengths_a", "strengths_b", "weaknesses_a", "weaknesses_b"}

\* The verdict display of compare_with_judge (from "error" in judgment to the
\* last print): whether it raises, and the winner line it prints.
NothingShown == "(no winner line)"
DisplayVerdict(j) ==
    \* "error" in j is a TypeError on a number, a bool or None; on a list or a
    \* str the test passes or fails and the indexing or the .get that follows
    \* raises
    IF j.ty # "dict" THEN [raised |-> TRUE, shown |-> NothingShown]
    ELSE IF HasKey(j, "error") THEN [raised |-> FALSE, shown |-> NothingShown]
    ELSE IF HasKey(j, "raw_text") THEN [raised |-> FALSE, shown |-> NothingShown]
    \* an unhashable key given to winner_map.get
    ELSE IF ~IsHashable(Get(j, "winner", Str("UNKNOWN")))
         THEN [raised |-> TRUE, shown |-> NothingShown]
    \* .upper() on a confidence that is no str
    ELSE IF ~IsStr(Get(j, "confidence", Str("unknown")))
         THEN [raised |-> TRUE, shown |-> WinnerLabel(Get(j, "winner", Str("UNKNOWN")))]
    ELSE [raised |-> \E k \in ListKeys : IterationRaises(j, k),
          shown |-> WinnerLabel(Get(j, "winner", Str("UNKNOWN")))]

\* compare_with_judge: the return when the KG branch failed
DefaultRecord(q, rag, kg) ==
    [question |-> q, winner |-> Str("RAG"), reason |-> Str("Knowledge Graph query failed"),
     rag_result |-> rag, kg_result |-> kg, judgment |-> PyNone]
\* compare_with_judge: the final return
JudgedRecord(q, rag, kg, j) ==
    [question |-> q, winner |-> Get(j, "winner", PyNone),
     confidence |-> Get(j, "confidence", PyNone), judgment |-> j,
     rag_result |-> rag, kg_result |-> kg]

\* ------------------------------------------------------------------------
\* The inputs of the collaborators
\* ------------------------------------------------------------------------
RagAnswers == {Str("rag answer")}
KgAnswers == {Str("kg answer")}

Node(n) == Dict([id |-> Num(n), label |-> "Researcher"])
Rel(a, b) == Dict([source |-> Num(a), target |-> Num(b), type |-> "PUBLISHED"])
\* what a lookup may return as an element of nodes: nodes, None, a node
\* without id, a value that is no mapping
NodeElems ==
    {Node(1), Node(2), PyNone, Dict([label |-> "Topic"]), Str("stray")}
\* what a lookup may return as an element of relationships; node 3 is never
\* among the nodes, so Rel(1, 3) and Rel(3, 1) dangle
RelElems ==
    {Rel(1, 2), Rel(1, 3), Rel(3, 1), Dict([source |-> PyNone, target |-> Num(1)]),
     Str("stray")}
\* the responses of a lookup query: no row, an empty row, a row without the
\* two keys, and a row holding lists of at most MaxLookupElems elements
LookupResponses ==
    {<<>>, << <<>> >>, << [other |-> <<>>] >>}
    \cup {<< [nodes |-> ns, relationships |-> rs] >> :
            ns \in SeqsUpTo(NodeElems, MaxLookupElems),
            rs \in SeqsUpTo(RelElems, MaxLookupElems)}
\* a few of them, for the runs of the whole comparison
SomeLookupResponses ==
    {<<>>,
     << [nodes |-> <<>>, relationships |-> <<>>] >>,
     << [nodes |-> <<Node(1), Node(2)>>, relationships |-> <<Rel(1, 2), Rel(1, 3)>>] >>,
     << [nodes |-> <<Node(1), Str("stray")>>, relationships |-> <<>>] >>,
     << [nodes |-> <<Node(2), Dict([id |-> Lst(<<>>)])>>,
         relationships |-> <<Rel(2, 2)>>] >>,
     << [nodes |-> <<Node(1)>>,
         relationships |-> <<PyNone, Rel(1, 1), Dict([source |-> Num(1), target |-> Lst(<<>>)])>>] >>}

JudgeTokens == {FENCE, "json", WS, "junk", "doc_a"}
\* the texts the Completion Service may return to the judge prompt: every
\* text of at most MaxJudgeText tokens, and every document bare and fenced
JudgeTexts ==
    SeqsUpTo(JudgeTokens, MaxJudgeText)
    \cup {<<d>> : d \in DocNames}
    \cup {<<FENCE, "json", WS, d, WS, FENCE>> : d \in DocNames}
\* a few of them, for the runs of the whole comparison
SomeJudgeTexts ==
    {<<d>> : d \in DocNames}
    \cup {<<"junk">>, <<FENCE, "json", WS, "doc_b", WS, FENCE>>, <<WS, FENCE, "junk", FENCE>>}

\* A lookup on an empty graph: its collect(...) aggregations give one record
\* with two empty lists
EmptyGraphResponses == { << [nodes |-> <<>>, relationships |-> <<>>] >> }
\* the responses of a lookup on the graph that holds corpus
GraphResponses(c) == IF c = {} THEN EmptyGraphResponses ELSE SomeLookupResponses

\* ------------------------------------------------------------------------
\* compare_with_judge, step by step.  A step runs from one call of a
\* collaborator to the next; the collaborator answers or raises.
\* ------------------------------------------------------------------------
NoCalls ==
    [keyword_query |-> 0, generate |-> 0, schema_query |-> 0, translate |-> 0,
     cypher_query |-> 0, lookup_a |-> 0, lookup_b |-> 0, explain |-> 0, judge |-> 0]
Called(what) == calls' = [calls EXCEPT ![what] = @ + 1]
NoExc == [at |-> "nowhere"]
Raised(where, msg) == [at |-> where, msg |-> msg]

\* no batch is running, no vector retrieval was asked for
NoBatch ==
    /\ questions = <<>>
    /\ results = <<>>
    /\ stats = NoValue
    /\ batch_pc = "off"
NoVector ==
    /\ embedded = <<>>
    /\ top_k = DefaultLimit
    /\ renders = <<>>
\* no repeated judging, no graph read for display, no translation on its own
NoPrompt == requests = <<>>
NoData ==
    /\ store = [nodes |-> {}, edges |-> {}]
    /\ node_limit = 0
    /\ graph_view = NoValue
NoTranslation ==
    /\ completion = <<>>
    /\ cypher_text = NoValue
NoAux == NoPrompt /\ NoData /\ NoTranslation

\* compare_with_judge is entered: nothing computed, no collaborator called
FreshComparison ==
    /\ pc = "rag_retrieve"
    /\ context = <<>>
    /\ rag_result = NoValue
    /\ kg_cypher = <<>>
    /\ kg_rows = NoValue
    /\ names = {}
    /\ nodes_dict = <<>>
    /\ rels_list = <<>>
    /\ dropped = 0
    /\ extract_exc = "none"
    /\ kg_exec = NoValue
    /\ kg_result = NoValue
    /\ judge_content = NoValue
    /\ judge_text = <<>>
    /\ judgment = NoValue
    /\ shown = NothingShown
    /\ record = NoValue
    /\ exc = NoExc
    /\ calls = NoCalls

Init ==
    /\ corpus \in Corpora
    /\ question \in Questions
    /\ NoBatch
    /\ NoVector
    /\ NoAux
    /\ driver = "open"
    /\ FreshComparison

\* the failed call made again instead
Retries(where, msg) ==
    /\ pc' = pc
    /\ exc' = exc
\* an exception leaves compare_with_judge
Escapes(where, msg) ==
    /\ pc' = "raised"
    /\ exc' = Raised(where, msg)

\* the judge asked as soon as query() has returned
JudgeAfterQuery == "judge"
\* compare_with_judge: kg_query_with_explanation follows the return of query()
AfterQuery == "kg_schema"

\* query(): retrieve_context, then the canned answer when the context is empty
RagRetrieve ==
    /\ pc = "rag_retrieve"
    /\ Called("keyword_query")
    /\ \/ /\ Escapes("retrieve_context", DbError)
          /\ UNCHANGED <<context, rag_result>>
       \/ \E rows \in KeywordRows(corpus, Keywords(question), DefaultLimit) :
            /\ context' = retrieve_context(rows)
            /\ IF ContextIsEmpty(context')
               THEN rag_result' = QueryCanned /\ pc' = AfterQuery
               ELSE rag_result' = rag_result /\ pc' = "rag_generate"
            /\ exc' = exc
    /\ UNCHANGED <<corpus, question, kg_cypher, kg_rows, names, nodes_dict, rels_list,
                   dropped, extract_exc, kg_exec, kg_result, judge_content, judge_text, judgment,
                   shown, record>>
    /\ UNCHANGED <<batchvars, vecvars, driver, auxvars>>

\* query(): generate_answer and the return
RagGenerate ==
    /\ pc = "rag_generate"
    /\ Called("generate")
    /\ \/ /\ Escapes("generate_answer", LlmError)
          /\ UNCHANGED rag_result
       \/ \E answer \in RagAnswers :
            /\ rag_result' = QueryAnswered(answer, context)
            /\ pc' = AfterQuery
            /\ exc' = exc
    /\ UNCHANGED <<corpus, question, context, kg_cypher, kg_rows, names, nodes_dict,
                   rels_list, dropped, extract_exc, kg_exec, kg_result, judge_content, judge_text,
                   judgment, shown, record>>
    /\ UNCHANGED <<batchvars, vecvars, driver, auxvars>>

\* text_to_cypher: get_graph_schema, outside the try
KgSchema ==
    /\ pc = "kg_schema"
    /\ Called("schema_query")
    /\ \/ Escapes("get_graph_schema", DbError)
       \/ pc' = "kg_translate" /\ exc' = exc
    /\ UNCHANGED <<corpus, question, context, rag_result, kg_cypher, kg_rows, names,
                   nodes_dict, rels_list, dropped, extract_exc, kg_exec, kg_result,
                   judge_content, judge_text, judgment, shown, record>>
    /\ UNCHANGED <<batchvars, vecvars, driver, auxvars>>

\* the default verdict never taken
NeverShortCircuits(kg) == FALSE
\* compare_with_judge: if not kg_result['success']
KgFailureShortCircuits(kg) == ~kg.success

\* compare_with_judge from the return of kg_query_with_explanation to the
\* judge call: RAG wins by default when the KG branch failed
KgReturns(kg) ==
    /\ kg_result' = kg
    /\ IF KgFailureShortCircuits(kg)
       THEN /\ record' = DefaultRecord(question, rag_result, kg)
            /\ shown' = "RAG"
            /\ pc' = "done"
       ELSE /\ record' = record
            /\ shown' = shown
            /\ pc' = "judge"

\* text_to_cypher: the completion call; execute_text_to_cypher up to execute_query
KgTranslate(texts) ==
    /\ pc = "kg_translate"
    /\ Called("translate")
    /\ \/ /\ kg_exec' = ExecTranslationFailed(CypherFailed(LlmError))
          /\ KgReturns(KgFailed(kg_exec'))
          /\ UNCHANGED kg_cypher
       \/ \E content \in texts :
            /\ kg_cypher' = CypherOk(content).cypher
            /\ pc' = "kg_execute"
            /\ UNCHANGED <<kg_exec, kg_result, record, shown>>
    /\ UNCHANGED <<corpus, question, context, rag_result, kg_rows, names, nodes_dict,
                   rels_list, dropped, extract_exc, judge_content, judge_text, judgment, exc>>
    /\ UNCHANGED <<batchvars, vecvars, driver, auxvars>>

\* an extractor that lets its exception through to execute_text_to_cypher
ExecAfterExtractPropagating(nd, rels, raised) ==
    IF raised THEN ExecFailed(kg_cypher, "extraction failed")
    ELSE ExecOk(kg_cypher, kg_rows.items, Snapshot(nd, rels))
\* execute_text_to_cypher: the return after _extract_graph_from_results, which
\* swallows its own exceptions and hands back what it has gathered
ExecAfterExtract(nd, rels, raised) == ExecOk(kg_cypher, kg_rows.items, Snapshot(nd, rels))

\* _extract_graph_from_results returns; kg_query_with_explanation goes on to
\* the explanation call
ExtractReturns(nd, rels, raised) ==
    /\ kg_exec' = ExecAfterExtract(nd, rels, raised)
    /\ pc' = "kg_explain"

\* execute_text_to_cypher: execute_query(cypher), then the extractor up to its
\* first lookup
KgExecute(rowsets) ==
    /\ pc = "kg_execute"
    /\ Called("cypher_query")
    /\ \/ /\ kg_exec' = ExecFailed(kg_cypher, DbError)
          /\ KgReturns(KgFailed(kg_exec'))
          /\ UNCHANGED <<kg_rows, names>>
       \/ \E rows \in rowsets :
            /\ kg_rows' = Lst(rows)
            /\ IF WantsLookup(CollectNames(rows))
               THEN /\ names' \in LookupNames(CollectNames(rows))
                    /\ pc' = "lookup_a"
                    /\ kg_exec' = kg_exec
               ELSE /\ names' = names
                    /\ kg_exec' = ExecOk(kg_cypher, rows, Snapshot(nodes_dict, rels_list))
                    /\ pc' = "kg_explain"
            /\ UNCHANGED <<kg_result, record, shown>>
    /\ UNCHANGED <<corpus, question, context, rag_result, kg_cypher, nodes_dict,
                   rels_list, dropped, extract_exc, judge_content, judge_text, judgment, exc>>
    /\ UNCHANGED <<batchvars, vecvars, driver, auxvars>>

\* the second lookup issued whatever the first found
AlwaysLookupB(nd) == TRUE
\* if not nodes_dict, after the merge of lookup A's response
NeedsLookupB(nd) == nd = <<>>

\* one lookup of the extractor and the merge of its response; lookup B
\* follows lookup A when nodes_dict is still empty
Lookup(here, responses) ==
    /\ \/ /\ extract_exc' = here
          /\ ExtractReturns(nodes_dict, rels_list, TRUE)
          /\ UNCHANGED <<nodes_dict, rels_list, dropped>>
       \/ \E resp \in responses :
            LET m == MergeResponse(nodes_dict, rels_list, resp)
            IN /\ dropped' = dropped + m.dropped
               /\ nodes_dict' = m.nodes
               /\ rels_list' = m.rels
               /\ extract_exc' = IF m.raised THEN "merge" ELSE extract_exc
               /\ IF ~m.raised /\ here = "lookup_a" /\ NeedsLookupB(m.nodes)
                  THEN pc' = "lookup_b" /\ kg_exec' = kg_exec
                  ELSE ExtractReturns(m.nodes, m.rels, m.raised)
    /\ UNCHANGED <<corpus, question, context, rag_result, kg_cypher, kg_rows, names,
                   kg_result, judge_content, judge_text, judgment, shown, record, exc>>
    /\ UNCHANGED <<batchvars, vecvars, driver, auxvars>>

\* lookup A: the researchers named by the candidates, and their neighbourhood
LookupA(responses) ==
    /\ pc = "lookup_a"
    /\ Called("lookup_a")
    /\ Lookup("lookup_a", responses)

\* lookup B: the articles titled by the candidates, when lookup A found no node
LookupB(responses) ==
    /\ pc = "lookup_b"
    /\ Called("lookup_b")
    /\ Lookup("lookup_b", responses)

\* kg_query_with_explanation: the explanation call and the return
KgExplain ==
    /\ pc = "kg_explain"
    /\ Called("explain")
    /\ \/ KgReturns(KgOk(kg_exec, ExplanationFallback(kg_exec, LlmError)))
       \/ \E answer \in KgAnswers : KgReturns(KgOk(kg_exec, answer))
    /\ UNCHANGED <<corpus, question, context, rag_result, kg_cypher, kg_rows, names,
                   nodes_dict, rels_list, dropped, extract_exc, kg_exec, judge_content, judge_text,
                   judgment, exc>>
    /\ UNCHANGED <<batchvars, vecvars, driver, auxvars>>

\* compare_with_judge from the verdict display to the return
Verdict(j) ==
    /\ judgment' = j
    /\ shown' = DisplayVerdict(j).shown
    /\ IF DisplayVerdict(j).raised
       THEN /\ Escapes("verdict display", "TypeError")
            /\ record' = record
       ELSE /\ record' = JudgedRecord(question, rag_result, kg_result, j)
            /\ pc' = "done"
            /\ exc' = exc

\* compare_with_judge: the judge call, the parse of its response, the display
JudgeCall(texts) ==
    /\ pc = "judge"
    /\ Called("judge")
    /\ \/ /\ Verdict(JudgmentError(LlmError))
          /\ UNCHANGED <<judge_content, judge_text>>
       \/ \E content \in texts :
            /\ judge_content' = Txt(content)
            /\ judge_text' = ParsedText(content)
            /\ Verdict(ParseJudgment(content))
    /\ UNCHANGED <<corpus, question, context, rag_result, kg_cypher, kg_rows, names,
                   nodes_dict, rels_list, dropped, extract_exc, kg_exec, kg_result>>
    /\ UNCHANGED <<batchvars, vecvars, driver, auxvars>>

\* quick_ask_with_judge: rag.close() once compare_with_judge has returned; an
\* exception of the comparison passes the call by
QuickAskClose ==
    /\ pc = "done"
    /\ driver = "open"
    /\ driver' = "closed"
    /\ UNCHANGED <<cmpvars, batchvars, vecvars, auxvars>>

Next ==
    \/ RagRetrieve
    \/ RagGenerate
    \/ KgSchema
    \/ KgTranslate(TranslatorTexts)
    \/ KgExecute(GraphRows(corpus))
    \/ LookupA(GraphResponses(corpus))
    \/ LookupB(GraphResponses(corpus))
    \/ KgExplain
    \/ JudgeCall(SomeJudgeTexts)
    \/ QuickAskClose

Spec == Init /\ [][Next]_vars

\* ------------------------------------------------------------------------
\* The extractor alone: execute_text_to_cypher from execute_query(cypher) on,
\* with every lookup response of the bounded shape.  It starts where the
\* comparison stands before execute_query: a question that matches no
\* article, the canned RAG answer, a translated query.
\* ------------------------------------------------------------------------
InitExtract ==
    /\ corpus = Articles
    /\ question = <<"zebra">>
    /\ NoBatch
    /\ NoVector
    /\ NoAux
    /\ driver = "open"
    /\ pc = "kg_execute"
    /\ context = <<>>
    /\ rag_result = QueryCanned
    /\ kg_cypher = <<"MATCH">>
    /\ kg_rows = NoValue
    /\ names = {}
    /\ nodes_dict = <<>>
    /\ rels_list = <<>>
    /\ dropped = 0
    /\ extract_exc = "none"
    /\ kg_exec = NoValue
    /\ kg_result = NoValue
    /\ judge_content = NoValue
    /\ judge_text = <<>>
    /\ judgment = NoValue
    /\ shown = NothingShown
    /\ record = NoValue
    /\ exc = NoExc
    /\ calls = [NoCalls EXCEPT !.keyword_query = 1, !.schema_query = 1, !.translate = 1]

NextExtract ==
    \/ KgExecute(QueryRows)
    \/ LookupA(LookupResponses)
    \/ LookupB(LookupResponses)

SpecExtract == InitExtract /\ [][NextExtract]_vars

\* ------------------------------------------------------------------------
\* The extractor on results that hold many names: one record listing the
\* first k names, for k at the prefix, above it, and under, at and over the
\* ceiling.
\* ------------------------------------------------------------------------
NameCounts == {NamePrefix, NamePrefix + 1, NameCeiling - 1, NameCeiling, NameCeiling + 1}
BigRows == { << [authors |-> Lst([i \in 1..k |-> Str(NameOrder[i])])] >> : k \in NameCounts }

NextNames ==
    \/ KgExecute(QueryRows \cup BigRows)
    \/ LookupA(SomeLookupResponses)
    \/ LookupB(SomeLookupResponses)

SpecNames == InitExtract /\ [][NextNames]_vars

\* ------------------------------------------------------------------------
\* The judge alone: compare_with_judge from the judge call on, with every
\* response text of the bounded shape.  It starts where the comparison stands
\* once both branches have returned and the KG branch succeeded.
\* ------------------------------------------------------------------------
JudgeStartRows == {<<>>, << [total |-> Num(0)] >>}
InitJudge ==
    /\ corpus = {}
    /\ question \in Questions
    /\ NoBatch
    /\ NoVector
    /\ NoAux
    /\ driver = "open"
    /\ pc = "judge"
    /\ context = <<>>
    /\ rag_result = QueryCanned
    /\ kg_cypher = <<"MATCH">>
    /\ \E rows \in JudgeStartRows :
         /\ kg_rows = Lst(rows)
         /\ kg_exec = ExecOk(<<"MATCH">>, rows, EmptyGraph)
    /\ names = {}
    /\ nodes_dict = <<>>
    /\ rels_list = <<>>
    /\ dropped = 0
    /\ extract_exc = "none"
    /\ \E answer \in KgAnswers : kg_result = KgOk(kg_exec, answer)
    /\ judge_content = NoValue
    /\ judge_text = <<>>
    /\ judgment = NoValue
    /\ shown = NothingShown
    /\ record = NoValue
    /\ exc = NoExc
    /\ calls = [NoCalls EXCEPT !.keyword_query = 1, !.schema_query = 1, !.translate = 1,
                               !.cypher_query = 1, !.explain = 1]

NextJudge == JudgeCall(JudgeTexts)

SpecJudge == InitJudge /\ [][NextJudge]_vars

\* ------------------------------------------------------------------------
\* batch_judge_questions: one comparison per question, then the aggregate
\* figures.  A comparison is taken by its outcome: one of the records
\* compare_with_judge returns, or an exception.
\* ------------------------------------------------------------------------
MaxBatch == 3

\* the judgments of the comparisons of a batch
BatchJudgments ==
    {JsonDocs.doc_a, JsonDocs.doc_b, JsonDocs.doc_no_confidence,
     Dict([winner |-> Str("TIE"), confidence |-> Str("medium"),
           accuracy_score_a |-> Num(7), accuracy_score_b |-> Str("n/a")]),
     JudgmentError(LlmError),
     Dict([raw_text |-> Txt(<<"junk">>)])}

\* the records compare_with_judge returns for a question: the default record
\* of a failed KG branch, and a judged record for each judgment it displays
CompareOutcomes(q) ==
    LET exec == ExecOk(<<"MATCH">>, <<>>, EmptyGraph)
        failed == KgFailed(ExecFailed(<<"MATCH">>, DbError))
    IN {DefaultRecord(q, QueryCanned, failed)}
       \cup {JudgedRecord(q, QueryCanned, KgOk(exec, Str("kg answer")), j) :
               j \in {b \in BatchJudgments : ~DisplayVerdict(b).raised}}

\* the value of Python's round-half-even of num/den, for the .1f of a figure
RoundHalfEven(num, den) ==
    LET q == num \div den
        r == num % den
    IN IF 2 * r < den THEN q
       ELSE IF 2 * r > den THEN q + 1
       ELSE IF q % 2 = 0 THEN q ELSE q + 1

\* sum(1 for r in results if r.get('winner') == w)
CountWinner(rs, w) == Cardinality({i \in DOMAIN rs : Get(rs[i], "winner", PyNone) = Str(w)})

\* a percentage cut instead of rounded
PercentTruncated(n, total) == (1000 * n) \div total
\* n/len(questions)*100 as printed with one decimal, in tenths of a percent
PercentTenths(n, total) == RoundHalfEven(1000 * n, total)

\* the test with the default of the value in it: a missing score is a 0
HasNumericScoreOrNone(r, key) ==
    /\ "judgment" \in DOMAIN r
    /\ Truthy(r.judgment)
    /\ Get(r.judgment, key, Num(0)).ty = "num"
\* 'judgment' in r and r['judgment'] and isinstance(r['judgment'].get(key), (int, float))
HasNumericScore(r, key) ==
    /\ "judgment" \in DOMAIN r
    /\ Truthy(r.judgment)
    /\ Get(r.judgment, key, PyNone).ty = "num"

\* the list comprehension of the accuracy scores of one side
AccuracyScores(rs, key) ==
    LET kept == SelectSeq(rs, LAMBDA r : HasNumericScore(r, key))
    IN [i \in DOMAIN kept |-> Get(kept[i].judgment, key, Num(0)).n]

RECURSIVE Sum(_)
Sum(ns) == IF ns = <<>> THEN 0 ELSE Head(ns) + Sum(Tail(ns))

\* sum(xs)/len(xs) as printed with one decimal, in tenths
MeanTenths(ns) == RoundHalfEven(10 * Sum(ns), Len(ns))

\* what batch_judge_questions prints after the loop
Aggregate(qs, rs) ==
    LET rag_accuracy == AccuracyScores(rs, "accuracy_score_a")
        kg_accuracy == AccuracyScores(rs, "accuracy_score_b")
        both == rag_accuracy # <<>> /\ kg_accuracy # <<>>
    IN [rag_wins |-> CountWinner(rs, "A"),
        kg_wins |-> CountWinner(rs, "B"),
        ties |-> CountWinner(rs, "TIE"),
        rag_percent |-> PercentTenths(CountWinner(rs, "A"), Len(qs)),
        kg_percent |-> PercentTenths(CountWinner(rs, "B"), Len(qs)),
        ties_percent |-> PercentTenths(CountWinner(rs, "TIE"), Len(qs)),
        rag_accuracy |-> rag_accuracy,
        kg_accuracy |-> kg_accuracy,
        rag_mean |-> IF both THEN Num(MeanTenths(rag_accuracy)) ELSE PyNone,
        kg_mean |-> IF both THEN Num(MeanTenths(kg_accuracy)) ELSE PyNone,
        winner_names |-> [i \in DOMAIN rs |-> BatchWinnerName(Get(rs[i], "winner", PyNone))]]

\* the questions a batch may hold
BatchQuestions == {<<"zebra">>, <<"Graph">>}

\* batch_judge_questions has made its Neo4jGraphRAG and is at its data check,
\* with nothing gathered
InitBatch ==
    /\ corpus = {}
    /\ question = <<>>
    /\ FreshComparison
    /\ NoVector
    /\ NoAux
    /\ driver = "open"
    /\ questions \in SeqsUpTo(BatchQuestions, MaxBatch)
    /\ results = <<>>
    /\ stats = NoValue
    /\ batch_pc = "check"

\* the data check before the loop: the count query raises, or the graph
\* holds data or is loaded with it
BatchCheck ==
    /\ batch_pc = "check"
    /\ batch_pc' \in {"check_raised", "compare"}
    /\ UNCHANGED <<questions, results, stats, cmpvars, vecvars, driver, auxvars>>

\* the loop body: compare_with_judge(question), whose exception ends the batch
BatchCompare ==
    /\ batch_pc = "compare"
    /\ Len(results) < Len(questions)
    /\ \/ /\ batch_pc' = "raised"
          /\ results' = results
       \/ \E r \in CompareOutcomes(questions[Len(results) + 1]) :
            /\ results' = Append(results, r)
            /\ batch_pc' = batch_pc
    /\ UNCHANGED <<questions, stats, cmpvars, vecvars, driver, auxvars>>

\* after the loop: the counts, the percentages (a division by len(questions)),
\* the mean accuracies, the listing and the closing of the driver
BatchAggregate ==
    /\ batch_pc = "compare"
    /\ Len(results) = Len(questions)
    /\ IF questions = <<>>
       THEN batch_pc' = "raised" /\ stats' = stats /\ driver' = driver
       ELSE /\ batch_pc' = "reported"
            /\ stats' = Aggregate(questions, results)
            \* rag.close(), then return results
            /\ driver' = "closed"
    /\ UNCHANGED <<questions, results, cmpvars, vecvars, auxvars>>

NextBatch == BatchCheck \/ BatchCompare \/ BatchAggregate

SpecBatch == InitBatch /\ [][NextBatch]_vars

\* ------------------------------------------------------------------------
\* retrieve_with_vector_search, called repeatedly on one corpus with one
\* query embedding.  The similarity of an article to the query is one of a
\* few levels; an article without embedding has none.
\* ------------------------------------------------------------------------
SimLevels == 2
MaxCalls == 2
\* the similarity as the f-string renders it with three decimals
SimText == <<"0.000", "0.250", "0.500", "0.750", "1.000">>
EmbeddedCorpora == UNION {[S -> 0..SimLevels] : S \in SUBSET Articles}
Limits == {1, 2, DefaultLimit}

\* WITH a, similarity ORDER BY similarity DESC LIMIT $limit: the limit most
\* similar articles, any of the equally similar ones at the cut
TopSets(e, k) ==
    LET size == IF Cardinality(DOMAIN e) < k THEN Cardinality(DOMAIN e) ELSE k
    IN {T \in SUBSET DOMAIN e :
          /\ Cardinality(T) = size
          /\ \A a \in T, b \in (DOMAIN e) \ T : e[a] >= e[b]}

\* The rows the query returns.  Its ORDER BY comes before the OPTIONAL MATCHes
\* and the aggregating WITH; the RETURN has none, and Cypher guarantees the
\* order of rows only of the clause that orders them, so the rows of the top
\* set come in any order.
VectorRows(e, k) ==
    UNION {{[i \in DOMAIN p |-> [title |-> p[i].title, abstract |-> p[i].abstract,
                                 topics |-> p[i].topics, authors |-> p[i].authors,
                                 similarity |-> e[p[i]]]] : p \in Perms(T)} :
           T \in TopSets(e, k)}

\* ', '.join(xs)
JoinPlain(xs) == Concat([i \in DOMAIN xs |-> IF i = 1 THEN <<xs[i]>> ELSE <<",", WS, xs[i]>>])

\* one context block of retrieve_with_vector_search, as its lines
VectorPart(i, r) ==
    << <<>>,
       <<"Article", WS, Digits[i], WS, "(", "Similarity", ":", WS,
         SimText[r.similarity + 1], ")", ":">>,
       <<"Title", ":", WS, r.title>>,
       <<"Authors", ":", WS>> \o JoinPlain(r.authors),
       <<"Topics", ":", WS>> \o JoinPlain(r.topics),
       <<"Abstract", ":", WS, r.abstract>>,
       <<"---">> >>

retrieve_with_vector_search(rows) == JoinParts([i \in DOMAIN rows |-> VectorPart(i, rows[i])])

InitVector ==
    /\ corpus = {}
    /\ question = <<"zebra">>
    /\ FreshComparison
    /\ NoBatch
    /\ NoAux
    /\ driver = "open"
    /\ embedded \in EmbeddedCorpora
    /\ top_k \in Limits
    /\ renders = <<>>

\* one call: get_embedding, the query, the rendering; an exception of the
\* Embedding Service or of the Graph Query Service leaves the call.  sources is
\* what query(question, use_vector_search=True) extracts from the context.
VectorRetrieve ==
    /\ Len(renders) < MaxCalls
    /\ \/ \E who \in {"get_embedding", "execute_query"} :
            renders' = Append(renders, [raised |-> who, rows |-> <<>>, context |-> <<>>,
                                        sources |-> <<>>])
       \/ \E rows \in VectorRows(embedded, top_k) :
            renders' = Append(renders, [raised |-> "no", rows |-> rows,
                                        context |-> retrieve_with_vector_search(rows),
                                        sources |-> extract_sources(retrieve_with_vector_search(rows))])
    /\ UNCHANGED <<embedded, top_k, cmpvars, batchvars, driver, auxvars>>

NextVector == VectorRetrieve

SpecVector == InitVector /\ [][NextVector]_vars

\* ------------------------------------------------------------------------
\* Repeated judging of one pair: compare_with_judge run again on a question
\* whose two branches return the same answers, sources, query and results.
\* Each run measures the elapsed time of each branch anew and builds the
\* judge request from the results and the times.
\* ------------------------------------------------------------------------
MaxRuns == 2
\* time.time() - start_time of a branch, in milliseconds
ElapsedMs == {1004, 1006, 2500}
\* the :.2f of a time, in hundredths of a second
TwoDecimals(ms) == RoundHalfEven(ms, 10)
\* a result of query() or of kg_query_with_explanation with its "time" entry
Timed(r, ms) == [k \in DOMAIN r \cup {"time"} |-> IF k = "time" THEN ms ELSE r[k]]

\* judgment_prompt: the values the f-string puts into the fixed template
JudgmentPrompt(q, rag, kg) ==
    [question |-> q,
     rag_answer |-> rag.answer,
     rag_documents |-> Len(rag.sources),
     rag_time |-> TwoDecimals(rag.time),
     cypher |-> kg.cypher,
     kg_answer |-> kg.answer,
     kg_results |-> kg.result_count,
     kg_time |-> TwoDecimals(kg.time),
     \* formatted_results[:500]: the texts of the model are shorter than that
     raw_results |-> kg.formatted_results]

\* the arguments of the judge's chat.completions.create
JudgeRequest(prompt) ==
    [model |-> "gpt-4o-mini", prompt |-> prompt, temperature |-> 0, seed |-> 42,
     max_tokens |-> 1000]

\* one run of compare_with_judge up to the judge call
CompareRun ==
    /\ pc = "judge"
    /\ Len(requests) < MaxRuns
    /\ \E rag_ms \in ElapsedMs, kg_ms \in ElapsedMs :
         requests' = Append(requests,
                            JudgeRequest(JudgmentPrompt(question, Timed(rag_result, rag_ms),
                                                        Timed(kg_result, kg_ms))))
    /\ UNCHANGED <<cmpvars, batchvars, vecvars, driver, datavars, transvars>>

NextPrompt == CompareRun

SpecPrompt == InitJudge /\ [][NextPrompt]_vars

\* ------------------------------------------------------------------------
\* get_graph_data: the graph read for display.  The graph holds up to
\* MaxNodes nodes, numbered by their ids, and directed relationships between
\* different nodes.
\* ------------------------------------------------------------------------
MaxNodes == 3
DefaultGraphLimit == 50
GraphLimits == {1, 2, DefaultGraphLimit}
Stores ==
    UNION {{[nodes |-> N, edges |-> E] :
              E \in SUBSET {e \in N \X N : e[1] # e[2]}} : N \in SUBSET (1..MaxNodes)}

\* the map the query makes of the null relationship of a node without
\* outgoing relationship
NullRel == Dict([source |-> PyNone, target |-> PyNone, type |-> PyNone])

\* a set of numbers as the ascending sequence
RECURSIVE Ascending(_)
Ascending(S) ==
    IF S = {} THEN <<>>
    ELSE LET m == CHOOSE x \in S : \A y \in S : x <= y
         IN <<m>> \o Ascending(S \ {m})

\* MATCH (n) WITH n LIMIT limit: any limit nodes of the graph, in any order
SelectedNodes(st, limit) ==
    LET size == IF Cardinality(st.nodes) < limit THEN Cardinality(st.nodes) ELSE limit
    IN UNION {Perms(S) : S \in {T \in SUBSET st.nodes : Cardinality(T) = size}}

\* OPTIONAL MATCH (n)-[r]->(m): the outgoing relationships of node n, whatever
\* their target
Outgoing(st, n) ==
    LET targets == Ascending({e[2] : e \in {d \in st.edges : d[1] = n}})
    IN [i \in DOMAIN targets |-> Rel(n, targets[i])]

\* The one row the query returns for the selected nodes p: the collected node
\* maps, and the collected relationship maps, with the null map once when a
\* selected node has no outgoing relationship.
GraphDataRow(st, p) ==
    LET rels == Concat([i \in DOMAIN p |-> Outgoing(st, p[i])])
        leaf == \E i \in DOMAIN p : Outgoing(st, p[i]) = <<>>
    IN [nodes |-> [i \in DOMAIN p |-> Node(p[i])],
        relationships |-> IF leaf THEN Append(rels, NullRel) ELSE rels]

\* the loop over result[0].get('nodes', [])
RECURSIVE GatherNodes(_, _)
GatherNodes(nd, elems) ==
    IF elems = <<>> THEN nd
    ELSE LET node == Head(elems)
         IN IF Truthy(node) /\ Get(node, "id", PyNone) # PyNone
            THEN GatherNodes(PutNode(nd, node), Tail(elems))
            ELSE GatherNodes(nd, Tail(elems))

\* if rel and rel.get('source') is not None and rel.get('target') is not None
KeepsRel(rel) ==
    /\ Truthy(rel)
    /\ Get(rel, "source", PyNone) # PyNone
    /\ Get(rel, "target", PyNone) # PyNone

\* get_graph_data, from the result of execute_query on
get_graph_data(result) ==
    IF HasFirstRow(result)
    THEN [nodes |-> GatherNodes(<<>>, Get(result[1], "nodes", <<>>)),
          relationships |-> SelectSeq(Get(result[1], "relationships", <<>>), KeepsRel)]
    ELSE EmptyGraph

InitGraph ==
    /\ corpus = {}
    /\ question = <<>>
    /\ FreshComparison
    /\ NoBatch
    /\ NoVector
    /\ NoPrompt
    /\ NoTranslation
    /\ driver = "open"
    /\ store \in Stores
    /\ node_limit \in GraphLimits
    /\ graph_view = NoValue

\* one call of get_graph_data: the query raises, or returns its row
GetGraphData ==
    /\ graph_view = NoValue
    /\ \/ graph_view' = Raised("execute_query", DbError)
       \/ \E p \in SelectedNodes(store, node_limit) :
            graph_view' = get_graph_data(<<GraphDataRow(store, p)>>)
    /\ UNCHANGED <<store, node_limit, cmpvars, batchvars, vecvars, driver, promptvars,
                   transvars>>

NextGraph == GetGraphData

SpecGraph == InitGraph /\ [][NextGraph]_vars

\* ------------------------------------------------------------------------
\* text_to_cypher on its own, on completions spelt backtick by backtick: a
\* token is one backtick, the word cypher, a whitespace or other text, so a
\* marker is any three backticks in a row and runs of every length occur.
\* ------------------------------------------------------------------------
MaxCompletion == 6
\* one backtick character
Tick == "<tick>"
Backticks == <<Tick, Tick, Tick>>
CompletionTokens == {Tick, "cypher", WS, "M"}
Completions == SeqsUpTo(CompletionTokens, MaxCompletion)

InitTranslate ==
    /\ corpus = {}
    /\ question = <<>>
    /\ FreshComparison
    /\ NoBatch
    /\ NoVector
    /\ NoPrompt
    /\ NoData
    /\ driver = "open"
    /\ completion \in Completions
    /\ cypher_text = NoValue

\* text_to_cypher from the completion call on: the call raises, or its
\* content is stripped and returned
Translate ==
    /\ cypher_text = NoValue
    /\ \/ cypher_text' = CypherFailed(LlmError)
       \/ cypher_text' = [success |-> TRUE,
                          cypher |-> StripCypherWith(completion, Backticks),
                          error |-> PyNone]
    /\ UNCHANGED <<completion, cmpvars, batchvars, vecvars, driver, promptvars, datavars>>

NextTranslate == Translate

SpecTranslate == InitTranslate /\ [][NextTranslate]_vars

\* ------------------------------------------------------------------------
\* Properties
\* ------------------------------------------------------------------------
KgBranchFailed == kg_result # NoValue /\ ~kg_result.success
NodeIds(nodes) == {nodes[i].id : i \in DOMAIN nodes}
NoDangling(nodes, rels) ==
    \A i \in DOMAIN rels :
        rels[i].source \in NodeIds(nodes) /\ rels[i].target \in NodeIds(nodes)

\* C1: whenever the KG branch reports success = false (translation failure or
\* execution failure), compare_with_judge returns a record whose winner is
\* "RAG", and no judge call is made in that comparison.
C1_KgFailureAwardsRag ==
    KgBranchFailed =>
        /\ pc = "done"
        /\ record # NoValue
        /\ record.winner = Str("RAG")
        /\ calls.judge = 0
\* the query was translated, the Graph Query Service rejected it, RAG won
C1_Witness ==
    /\ KgBranchFailed
    /\ pc = "done"
    /\ "cypher" \in DOMAIN kg_exec
    /\ calls.cypher_query = 1
    /\ record.winner = Str("RAG")

\* C2: once both branches have returned and the KG branch succeeded, whatever
\* text the judge's Completion Service returns, compare_with_judge returns a
\* comparison record and does not raise.
C2_JudgeResponseNeverRaises ==
    judge_content # NoValue => (pc = "done" /\ record # NoValue)

\* C3: when the judge's response, after the stripping of an optional code
\* fence, is not parseable as JSON, the judgment of the returned record is
\* exactly {raw_text: the stripped text}, the record's winner and confidence
\* are None, and the judge was called once.
C3_UnparseableGivesRawText ==
    (judge_content # NoValue /\ ~JsonParses(StripFence(Strip(judge_content.t)))) =>
        /\ pc = "done"
        /\ record # NoValue
        /\ record.judgment = Dict([raw_text |-> Txt(StripFence(Strip(judge_content.t)))])
        /\ record.winner = PyNone
        /\ record.confidence = PyNone
        /\ calls.judge = 1
\* a fenced response whose inside is no JSON: the record holds the inside
C3_Witness ==
    /\ pc = "done"
    /\ judge_content # NoValue
    /\ Contains(judge_content.t, <<FENCE>>)
    /\ judge_text # <<>>
    /\ judge_text # judge_content.t
    /\ ~JsonParses(judge_text)
    /\ record.judgment = Dict([raw_text |-> Txt(judge_text)])

\* C4: when the Completion Service raises during the judge call,
\* compare_with_judge returns; the judgment of the record is {error: the
\* message} and the record carries the RAG result and the KG result as they
\* were before the call.
C4_JudgeExceptionGivesError ==
    [][(pc = "judge" /\ judge_content' = NoValue) =>
          /\ pc' = "done"
          /\ record' # NoValue
          /\ record'.judgment = Dict([error |-> Str(LlmError)])
          /\ record'.rag_result = rag_result
          /\ record'.kg_result = kg_result]_vars
\* the judge call raised after a RAG answer with sources and a KG answer with rows
C4_Witness ==
    /\ pc = "done"
    /\ calls.judge = 1
    /\ judge_content = NoValue
    /\ HasKey(record.judgment, "error")
    /\ record.rag_result.sources # <<>>
    /\ record.kg_result.result_count > 0

\* C5: the winner-label mapping is total: for every value of the judgment's
\* winner field, a missing one included, the verdict display computes the
\* label (RAG for A, Knowledge Graph for B, TIE for TIE, UNKNOWN for anything
\* else) and does not fail in computing it.
C5_WinnerLabelTotal ==
    (/\ judgment # NoValue
     /\ judgment.ty = "dict"
     /\ ~HasKey(judgment, "error")
     /\ ~HasKey(judgment, "raw_text")) =>
        LET w == Get(judgment, "winner", Absent)
        IN shown = (CASE w = Str("A") -> "RAG"
                      [] w = Str("B") -> "Knowledge Graph"
                      [] w = Str("TIE") -> "TIE"
                      [] OTHER -> "UNKNOWN")

\* C6: for every comparison record, the label of batch_judge_questions'
\* per-question listing equals the label compare_with_judge displayed for the
\* record's winner.
C6_SameLabelEverywhere ==
    (pc = "done" /\ shown # NothingShown) => BatchWinnerName(record.winner) = shown

\* C7: every relationship of the snapshot _extract_graph_from_results returns
\* has its source and its target among the identifiers of the returned nodes,
\* whatever the lookups answered.
C7_NoDanglingRelationship ==
    /\ NoDangling(nodes_dict, rels_list)
    /\ (kg_exec # NoValue /\ kg_exec.success) =>
          NoDangling(kg_exec.graph_data.nodes, kg_exec.graph_data.relationships)
\* a lookup answered relationships with an endpoint outside the nodes; the
\* snapshot kept the others
C7_Witness ==
    /\ kg_exec # NoValue
    /\ kg_exec.success
    /\ dropped > 0
    /\ kg_exec.graph_data.relationships # <<>>

\* C8: if an exception occurs at any step of _extract_graph_from_results, the
\* returned snapshot has no nodes and no relationships.
C8_ExceptionGivesEmptySnapshot ==
    (kg_exec # NoValue /\ extract_exc # "none") => kg_exec.graph_data = EmptyGraph

\* C9: whenever the Graph Query Service executes the translated query without
\* raising, execute_text_to_cypher returns success = true with the query's
\* results and their number, whatever happens in the extractor's lookups.
C9_ExtractionNeverFailsKg ==
    (kg_rows # NoValue /\ kg_exec # NoValue) =>
        /\ kg_exec.success
        /\ kg_exec.results = kg_rows.items
        /\ kg_exec.result_count = Len(kg_rows.items)
\* a lookup raised, or the merge of its response did, and the result is a success
C9_Witness ==
    /\ kg_exec # NoValue
    /\ extract_exc # "none"
    /\ kg_rows # NoValue
    /\ kg_rows.items # <<>>
    /\ kg_exec.success

\* C10: for every question whose keyword match set is empty, query(question,
\* use_vector_search=False) returns the canned answer with empty context and
\* empty sources, and makes no Completion Service call.
C10_NoMatchNoGeneration ==
    KeywordMatches(corpus, Keywords(question)) = {} =>
        /\ pc # "rag_generate"
        /\ calls.generate = 0
        /\ rag_result # NoValue =>
              /\ rag_result.answer = Str(CannedAnswer)
              /\ rag_result.context = <<>>
              /\ rag_result.sources = <<>>
\* a question with words, a corpus with articles, no match, the canned answer
C10_Witness ==
    /\ KeywordMatches(corpus, Keywords(question)) = {}
    /\ corpus # {}
    /\ question # <<>>
    /\ calls.keyword_query = 1
    /\ rag_result = QueryCanned

\* C11: the two failures of the KG branch can be told apart.  When the
\* Completion Service raises during translation the result is unsuccessful,
\* its error is the translation-failure message carrying the service's
\* exception, and no query was executed; when the Graph Query Service raises on
\* the generated query the result is unsuccessful with the execution-error
\* message.  The Translator reports a failure only for an exception of the
\* Completion Service: an exception of the schema query leaves text_to_cypher
\* as an exception, not as a result.
C11_FailuresToldApart ==
    /\ KgBranchFailed =>
          /\ kg_exec.error = kg_result.error
          /\ IF calls.cypher_query = 0
             THEN /\ calls.translate = 1
                  /\ kg_result.error = Txt(<<"Failed to generate Cypher: ", LlmError>>)
                  /\ calls.lookup_a = 0 /\ calls.lookup_b = 0
             ELSE kg_result.error = Txt(<<"Cypher execution error: ", DbError>>)
    /\ exc.at = "get_graph_schema" => (kg_exec = NoValue /\ kg_result = NoValue)
    /\ (kg_exec # NoValue /\ calls.cypher_query = 0) => ~kg_exec.success
\* the translation call raised: the record carries the translation failure
C11_Witness ==
    /\ pc = "done"
    /\ KgBranchFailed
    /\ calls.cypher_query = 0
    /\ record.kg_result.error = Txt(<<"Failed to generate Cypher: ", LlmError>>)

\* C12: when the Graph Query Service rejects the generated query, the KG result
\* carried by the comparison record is unsuccessful and holds the query string,
\* as its cypher or within one of its texts.
C12_RejectedQueryPreserved ==
    (record # NoValue /\ calls.cypher_query = 1 /\ ~record.kg_result.success) =>
        \/ /\ "cypher" \in DOMAIN record.kg_result
           /\ record.kg_result.cypher = kg_cypher
        \/ Contains(record.kg_result.error.t, kg_cypher)
        \/ Contains(record.kg_result.answer.t, kg_cypher)

\* C13: when the Graph Query Service or the Completion Service raises in the
\* RAG branch (keyword retrieval, answer generation), compare_with_judge
\* returns a comparison record to its caller and lets no exception escape.
C13_RagFailureSurfacedAsRecord ==
    (calls.keyword_query = 1 /\ calls.schema_query = 0 /\ pc \notin {"rag_retrieve", "rag_generate", "kg_schema"}) =>
        (pc = "done" /\ record # NoValue /\ exc = NoExc)

\* the winners of the records gathered, in order
Winners == [i \in DOMAIN results |-> Get(results[i], "winner", PyNone)]
\* p is n out of total as a percentage, to the nearest tenth
NearestTenth(p, n, total) ==
    /\ 2 * (p * total - 1000 * n) <= total
    /\ 2 * (1000 * n - p * total) <= total

\* C14: batch_judge_questions reports as rag_wins, kg_wins and ties the numbers
\* of records whose winner is A, B and TIE, each with its percentage of the
\* number of questions to one decimal; for the winners A, B, TIE the figures
\* are 1, 1 and 1, each 33.3 percent; the three never add up to more than the
\* number of questions.
C14_BatchCounts ==
    batch_pc = "reported" =>
        /\ stats.rag_wins = Cardinality({i \in DOMAIN Winners : Winners[i] = Str("A")})
        /\ stats.kg_wins = Cardinality({i \in DOMAIN Winners : Winners[i] = Str("B")})
        /\ stats.ties = Cardinality({i \in DOMAIN Winners : Winners[i] = Str("TIE")})
        /\ NearestTenth(stats.rag_percent, stats.rag_wins, Len(questions))
        /\ NearestTenth(stats.kg_percent, stats.kg_wins, Len(questions))
        /\ NearestTenth(stats.ties_percent, stats.ties, Len(questions))
        /\ stats.rag_wins + stats.kg_wins + stats.ties <= Len(questions)
        /\ Winners = <<Str("A"), Str("B"), Str("TIE")>> =>
              /\ <<stats.rag_wins, stats.kg_wins, stats.ties>> = <<1, 1, 1>>
              /\ <<stats.rag_percent, stats.kg_percent, stats.ties_percent>> = <<333, 333, 333>>
\* the batch of the three winners A, B, TIE has been reported
C14_Witness ==
    /\ batch_pc = "reported"
    /\ Winners = <<Str("A"), Str("B"), Str("TIE")>>
    /\ stats.rag_percent = 333

\* the records whose judgment holds a number under key
Scored(key) ==
    {i \in DOMAIN results :
        /\ results[i].judgment.ty = "dict"
        /\ key \in DOMAIN results[i].judgment
        /\ results[i].judgment[key].ty = "num"}
\* the scores taken for a side are those of the scored records, in order, and
\* the mean printed is their mean to the nearest tenth
MeanOverScored(scores, mean, key) ==
    /\ Len(scores) = Cardinality(Scored(key))
    /\ \E f \in [DOMAIN scores -> Scored(key)] :
          /\ \A i, j \in DOMAIN scores : i < j => f[i] < f[j]
          /\ \A i \in DOMAIN scores : scores[i] = results[f[i]].judgment[key].n
    /\ mean # PyNone =>
          /\ 2 * (mean.n * Len(scores) - 10 * Sum(scores)) <= Len(scores)
          /\ 2 * (10 * Sum(scores) - mean.n * Len(scores)) <= Len(scores)

\* C15: the mean accuracy of each side is taken over exactly the records whose
\* judgment holds a numeric accuracy score for that side; a record without a
\* judgment, or whose judgment is an {error} or a {raw_text}, is left out and
\* does not count as a zero.
C15_MeanOverScoredOnly ==
    batch_pc = "reported" =>
        /\ MeanOverScored(stats.rag_accuracy, stats.rag_mean, "accuracy_score_a")
        /\ MeanOverScored(stats.kg_accuracy, stats.kg_mean, "accuracy_score_b")
        /\ \A i \in DOMAIN results :
              (\/ results[i].judgment = PyNone
               \/ HasKey(results[i].judgment, "error")
               \/ HasKey(results[i].judgment, "raw_text")) =>
                 /\ i \notin Scored("accuracy_score_a")
                 /\ i \notin Scored("accuracy_score_b")
\* a reported batch with a scored record, an error record and a default record:
\* the mean is the scored record's own score
C15_Witness ==
    /\ batch_pc = "reported"
    /\ Len(results) = 3
    /\ \E i \in DOMAIN results : results[i].judgment = PyNone
    /\ \E i \in DOMAIN results : HasKey(results[i].judgment, "error")
    /\ stats.rag_accuracy = <<8>>
    /\ stats.rag_mean = Num(80)

\* the similarities of a rendering never rise from one document to the next
NonIncreasing(rows) ==
    \A i, j \in DOMAIN rows : i < j => rows[i].similarity >= rows[j].similarity

\* C16: retrieve_with_vector_search renders at most limit documents, in an
\* order of non-increasing cosine similarity, and on one corpus with one query
\* embedding every call renders the same documents in the same order.
C16_VectorRanking ==
    \A k, l \in DOMAIN renders :
        (renders[k].raised = "no" /\ renders[l].raised = "no") =>
            /\ Len(renders[k].rows) <= top_k
            /\ NonIncreasing(renders[k].rows)
            /\ renders[k].context = renders[l].context

\* C17: with an empty corpus, for any question, the RAG branch returns the
\* canned answer with an empty context; the Translator is still invoked; once
\* its query has executed, the result is a success whose result_count is the
\* number of records returned (none for a query that matches, one for a query
\* that only aggregates or returns a literal), and the extractor's snapshot
\* has no node and no relationship.
C17_EmptyCorpus ==
    corpus = {} =>
        /\ calls.generate = 0
        /\ rag_result # NoValue =>
              /\ rag_result.answer = Str(CannedAnswer)
              /\ rag_result.context = <<>>
        /\ pc = "done" => (calls.schema_query = 1 /\ calls.translate = 1)
        /\ (kg_rows # NoValue /\ kg_exec # NoValue) =>
              /\ kg_exec.success
              /\ kg_exec.result_count = Len(kg_rows.items)
              /\ kg_exec.result_count <= 1
              /\ kg_exec.graph_data = EmptyGraph
\* on an empty graph a query returned one record holding a literal: both
\* lookups ran and the snapshot is empty
C17_Witness ==
    /\ corpus = {}
    /\ pc = "done"
    /\ rag_result = QueryCanned
    /\ kg_exec.success
    /\ kg_exec.result_count = 1
    /\ calls.lookup_b = 1
    /\ kg_exec.graph_data = EmptyGraph
\* C17 as first stated: with an empty corpus the executed query yields
\* success with result_count 0 and an empty snapshot.
C17_EmptyCorpusNoRecord ==
    (corpus = {} /\ kg_rows # NoValue /\ kg_exec # NoValue) =>
        /\ kg_exec.success
        /\ kg_exec.result_count = 0
        /\ kg_exec.graph_data = EmptyGraph

\* the number of candidate names the executed query's records hold
CandidateCount == Cardinality(CollectNames(kg_rows.items))

\* C18: _extract_graph_from_results returns an empty snapshot without any
\* lookup exactly when the candidate-name set is empty or has more than 50
\* names; for every candidate set of 1 to 50 names it issues lookup A.
C18_LookupUpToCeiling ==
    kg_rows # NoValue =>
        IF CandidateCount = 0 \/ CandidateCount > 50
        THEN /\ calls.lookup_a = 0
             /\ pc # "lookup_a"
             /\ kg_exec.graph_data = EmptyGraph
        ELSE pc = "lookup_a" \/ calls.lookup_a = 1

\* C19: every lookup query receives as names at least 1 and at most 20 names,
\* all of them among the candidates collected from the query's records, and
\* lookup B receives the names lookup A received.
C19_LookupNamesBounded ==
    /\ [](pc \in {"lookup_a", "lookup_b"} \/ calls.lookup_a = 1 =>
            /\ Cardinality(names) >= 1
            /\ Cardinality(names) <= 20
            /\ names \subseteq CollectNames(kg_rows.items)
            /\ "" \notin names)
    /\ [][(pc \in {"lookup_a", "lookup_b"}) => (names' = names)]_vars
\* 49 candidates, 20 of them handed to lookup A and then to lookup B
C19_Witness ==
    /\ calls.lookup_b = 1
    /\ kg_rows # NoValue
    /\ CandidateCount = 49
    /\ Cardinality(names) = 20

\* C20: lookup B is issued if and only if lookup A was issued, returned and
\* left nodes_dict without a node; lookup A comes before lookup B, and an
\* extraction issues at most two lookups, each at most once.
C20_LookupBAfterEmptyA ==
    /\ [](/\ calls.lookup_a <= 1
          /\ calls.lookup_b <= 1
          /\ (pc = "lookup_b" \/ calls.lookup_b = 1) => calls.lookup_a = 1)
    /\ [][(pc = "lookup_a") =>
             ((pc' = "lookup_b") <=> (extract_exc' = "none" /\ nodes_dict' = <<>>))]_vars
    /\ [][(calls'.lookup_b # calls.lookup_b) =>
             (pc = "lookup_b" /\ nodes_dict = <<>> /\ calls.lookup_a = 1)]_vars
\* lookup A found no node, lookup B was issued and found some
C20_Witness ==
    /\ calls.lookup_a = 1
    /\ calls.lookup_b = 1
    /\ extract_exc = "none"
    /\ nodes_dict # <<>>
    /\ kg_exec # NoValue

\* the titles of the retrieved documents, in the order of the rows
Titles(rows) == [i \in DOMAIN rows |-> <<rows[i].title>>]
Distinct(xs) == \A i, j \in DOMAIN xs : i # j => xs[i] # xs[j]
SourcesAreTitles(rows, sources) == sources = Titles(rows) /\ Distinct(sources)

\* C21: for a non-empty context of either retrieval strategy, the sources
\* query() returns are exactly the titles of the retrieved documents, in
\* context order, without duplicates, one per retrieved document.
C21_SourcesAreTitles ==
    /\ (rag_result # NoValue /\ rag_result.context # <<>>) =>
          \E rows \in KeywordRows(corpus, Keywords(question), DefaultLimit) :
              /\ rag_result.context = retrieve_context(rows)
              /\ SourcesAreTitles(rows, rag_result.sources)
    /\ \A k \in DOMAIN renders :
          (renders[k].raised = "no" /\ renders[k].context # <<>>) =>
              SourcesAreTitles(renders[k].rows, renders[k].sources)

\* the half of C21 that is about keyword retrieval
C21_KeywordSourcesAreTitles ==
    (rag_result # NoValue /\ rag_result.context # <<>>) =>
        \E rows \in KeywordRows(corpus, Keywords(question), DefaultLimit) :
            /\ rag_result.context = retrieve_context(rows)
            /\ SourcesAreTitles(rows, rag_result.sources)

\* C22: two comparisons with the same question, the same RAG answer and
\* sources and the same KG query, answer and results hand the judge the same
\* prompt, at temperature 0 and with the same fixed seed.
C22_SameRequestEveryRun ==
    \A k, l \in DOMAIN requests :
        /\ requests[k].temperature = 0
        /\ requests[k].seed = requests[l].seed
        /\ requests[k].prompt = requests[l].prompt

\* the part of C22 about the sampling parameters
C22_FixedSampling ==
    \A k, l \in DOMAIN requests :
        /\ requests[k].temperature = 0
        /\ requests[k].seed = requests[l].seed

\* the collaborators the two branches call
BranchCalls ==
    {"keyword_query", "generate", "schema_query", "translate", "cypher_query",
     "lookup_a", "lookup_b", "explain"}
BothBranchesReturned == rag_result # NoValue /\ kg_result # NoValue

\* C23: the judge is called only once query() and kg_query_with_explanation
\* have both returned, and no call of either branch is made after it.
C23_JudgeAfterBothBranches ==
    /\ [](calls.judge > 0 => BothBranchesReturned)
    /\ [][(calls'.judge > calls.judge) => (pc = "judge" /\ BothBranchesReturned)]_vars
    /\ [][(calls.judge > 0) => (\A w \in BranchCalls : calls'[w] = calls[w])]_vars

C23_Witness ==
    /\ calls.judge = 1
    /\ calls.generate = 1
    /\ calls.explain = 1
    /\ calls.lookup_a = 1
    /\ rag_result.context # <<>>
    /\ kg_result.success

\* the Completion Service stages and the execution of the translated query
Stages == {"generate", "translate", "cypher_query", "explain", "judge"}

\* C24: within one compare_with_judge call each Completion Service stage and
\* the execution of the translated query are invoked at most once, so a
\* stage that failed is never invoked again.
C24_NothingRetried ==
    /\ [](\A w \in Stages : calls[w] <= 1)
    /\ [][\A w \in Stages : (calls[w] = 1) => (calls'[w] = 1)]_vars

C24_Witness ==
    /\ pc = "done"
    /\ \A w \in Stages : calls[w] = 1
    /\ kg_result.answer = ExplanationFallback(kg_exec, LlmError)
    /\ judgment = JudgmentError(LlmError)

\* C25: for every graph and every limit, each relationship of the snapshot
\* get_graph_data returns has its source and its target among the returned
\* nodes.
C25_GraphDataNoDangling ==
    (graph_view # NoValue /\ "nodes" \in DOMAIN graph_view) =>
        NoDangling(graph_view.nodes, graph_view.relationships)

\* what does hold of the snapshot: every source is a returned node
C25_SourcesReturned ==
    (graph_view # NoValue /\ "nodes" \in DOMAIN graph_view) =>
        \A i \in DOMAIN graph_view.relationships :
            graph_view.relationships[i].source \in NodeIds(graph_view.nodes)

\* C26: for every text the Completion Service returns to the Translator, the
\* query text_to_cypher produces holds no run of three backticks, and the
\* stripping step applied to that query leaves it unchanged.
C26_NoFenceAndIdempotent ==
    (cypher_text # NoValue /\ cypher_text.success) =>
        /\ ~Contains(cypher_text.cypher, Backticks)
        /\ StripCypherWith(cypher_text.cypher, Backticks) = cypher_text.cypher

C26_Witness ==
    /\ cypher_text # NoValue
    /\ cypher_text.success
    /\ completion = <<WS, Tick, Tick, Tick, "cypher", "M">>
    /\ cypher_text.cypher = <<"M">>

\* the questions of a batch whose KG branch failed
AwardedByDefault == {i \in DOMAIN results : ~results[i].kg_result.success}

\* C27: a question whose KG branch failed, which compare_with_judge awarded
\* to RAG, is counted among the RAG wins of the aggregate statistics and is
\* listed with winner RAG.
C27_DefaultWinCountedForRag ==
    batch_pc = "reported" =>
        /\ stats.rag_wins >= Cardinality(AwardedByDefault)
        /\ \A i \in AwardedByDefault :
              /\ results[i].winner = Str("RAG")
              /\ stats.winner_names[i] = "RAG"

\* every comparison of the batch has returned
AllCompared == batch_pc \notin {"off", "check", "check_raised"} /\ Len(results) = Len(questions)
InInputOrder == \A i \in DOMAIN results : results[i].question = questions[i]

\* C28: for every input list whose comparisons all return, the empty list
\* included, batch_judge_questions does not raise and returns one comparison
\* record per question, in input order.
C28_BatchReturnsAllRecords ==
    /\ AllCompared => batch_pc # "raised"
    /\ batch_pc = "reported" => (Len(results) = Len(questions) /\ InInputOrder)

\* the same for the lists that hold a question
C28_NonEmptyBatchReturns ==
    /\ (AllCompared /\ questions # <<>>) => batch_pc # "raised"
    /\ batch_pc = "reported" => (Len(results) = Len(questions) /\ InInputOrder)

\* an answer that states the result count of the query and the exception
StatesResultCount(kg) ==
    /\ kg.answer.t[1] = "Found "
    /\ kg.answer.t[2] = Decimal(kg.result_count)
    /\ kg.answer.t[4] = LlmError

\* C29: when the explanation call is made (the query has executed), then
\* whether the Completion Service answers or raises, the KG result is a
\* success, its answer is the service's or a fallback that states the result
\* count, and the comparison goes on to the judge call; it never finishes
\* without having called the judge.
C29_ExplanationFailureStillJudged ==
    /\ [][(calls'.explain > calls.explain) =>
            /\ kg_result'.success
            /\ kg_result'.result_count = Len(kg_rows.items)
            /\ (kg_result'.answer \in KgAnswers \/ StatesResultCount(kg_result'))
            /\ pc' = "judge"]_vars
    /\ []((calls.explain = 1 /\ pc = "done") => calls.judge = 1)

C29_Witness ==
    /\ kg_result # NoValue
    /\ kg_result.success
    /\ kg_result.answer \notin KgAnswers
    /\ StatesResultCount(kg_result)
    /\ kg_result.result_count = 2
    /\ calls.judge = 1
    /\ pc = "done"
    /\ record.winner = Str("B")

\* C30: when quick_ask_with_judge or batch_judge_questions is left by an
\* exception of a comparison or of a graph query, or has returned, the graph
\* driver connection it opened is closed.
C30_DriverClosedOnEveryExit ==
    /\ batch_pc \in {"reported", "raised", "check_raised"} => driver = "closed"
    /\ pc = "raised" => driver = "closed"

\* the same for the exits by return only
C30_DriverClosedOnReturn == batch_pc = "reported" => driver = "closed"

====
